---- MODULE Spec2Model ----
(***************************************************************************)
(* Data pipeline of supervoice-voicebox: the alignment decoder, the        *)
(* paired-file and flat-file example sources, the masking policy, the      *)
(* batch collator (utils/dataset.py, train_audio.py), the pre-extracted    *)
(* record transformer and the dataset index builder (datasets_index.py).   *)
(*                                                                         *)
(* Times are integers (ticks); a tensor is the sequence of its entries     *)
(* along the time axis.  An audio tensor is modelled by the identifiers of *)
(* its frames: frame j of a stored tensor is the number j (0-based), and   *)
(* a zero frame added by padding is PadFrame.                              *)
(***************************************************************************)
EXTENDS Integers, Sequences, FiniteSets, TLC

VARIABLES
    pc,         \* position of the modelled program
    variant,    \* "aligned" (utils/dataset.py) or "train" (train_audio.py)
    item,       \* the dataset entry an access reads: its tier and its audio file
    cur,        \* locals of the latest __getitem__ call
    batch,      \* the examples handed to collate_to_shortest
    collated,   \* what collate_to_shortest produced
    files,      \* datasets_index.py: the enumerated paths, in glob order
    clips,      \* the duration of the audio file behind each path
    tasks,      \* the pool's chunks of paths no worker has taken yet
    running,    \* the chunk each pool worker is computing (<<>>: idle)
    results,    \* results the pool has delivered, not yet yielded to main
    durations,  \* main's list of (path, duration)
    manifest,   \* the lines written to list_pretrain.csv
    data,       \* the record handed to the pre-extracted-record transformer
    transformed,\* what the transformer returned
    rows,       \* AudioFileListDataset.rows after the shuffle
    sample,     \* what AudioFileListDataset.__getitem__ returned
    pairs,      \* get_aligned_dataset_loader: (tg, files) as loaded, zipped
    dataset     \* AlignedDataset: its textgrid and files after construction

pipeVars == <<variant, item, cur, batch, collated>>
indexVars == <<files, clips, tasks, running, results, durations, manifest>>
recordVars == <<data, transformed>>
flatVars == <<rows, sample>>
pairedVars == <<pairs, dataset>>
vars == <<pc, pipeVars, indexVars, recordVars, flatVars, pairedVars>>

(***************************** bounds **************************************)
MaxTime == 6
MaxIntervals == 2
MaxAudio == 4
MaxBatchFrames == 2
MaskGrid == 10
NumFiles == 3
MaxDuration == 2
NumWorkers == 2
ChunkSize == 2
MaxRecordSize == 4
MaxSpan == 3

(************************** configuration **********************************)
\* ticks per frame (the loader's phoneme_duration; train_audio.py fixes 0.01 s)
phoneme_duration == 2
token_duration == 1
max_length == 2
batch_size == 2

None == "None"

Min2(a, b) == IF a <= b THEN a ELSE b
Max2(a, b) == IF a >= b THEN a ELSE b

MinOf(S) == CHOOSE m \in S : \A x \in S : m <= x
MaxOf(S) == CHOOSE m \in S : \A x \in S : m >= x

(************************ parts that are not running ***********************)
IdlePipe ==
    /\ variant = None /\ item = None /\ cur = None
    /\ batch = <<>> /\ collated = None
IdleIndex ==
    /\ files = <<>> /\ clips = <<>> /\ tasks = <<>> /\ running = <<>>
    /\ results = <<>> /\ durations = <<>> /\ manifest = None
IdleRecord == data = None /\ transformed = None
IdleFlat == rows = <<>> /\ sample = None
IdlePaired == pairs = <<>> /\ dataset = None

(************************** tokenizer contract *****************************)
silence_token == "<SIL>"
unknown_token == "<UNK>"
Vocabulary == <<silence_token, unknown_token, "a", "spn">>
TokenId(sym) == CHOOSE i \in 1..Len(Vocabulary) : Vocabulary[i] = sym
Tokenizer(phonemes) == [i \in 1..Len(phonemes) |-> TokenId(phonemes[i])]

(***************************** tensors *************************************)
PadFrame == 0 - 1
\* the stored audio tensor of T frames, time-major after transpose(0, 1)
LoadAudio(T) == [i \in 1..T |-> i - 1]

\* Python's s[a:b] for 0 <= a, 0 <= b: both ends are clamped to len(s)
Slice(s, a, b) ==
    LET lo == Min2(a, Len(s))
        hi == Min2(b, Len(s))
    IN IF hi <= lo THEN <<>> ELSE SubSeq(s, lo + 1, hi)

\* random.randint(0, n - l), taken when n > l; no offset is drawn otherwise
Randint(n, l) == IF n > l THEN 0..(n - l) ELSE {0}

(************************** alignment decoder ******************************)
Marks == {"", "spn", "a"}
Intervals == [maxTime : 0..MaxTime, mark : Marks]
\* the tiers of n intervals
TextGrids(n) == [1..n -> Intervals]

\* utils/dataset.py: '' -> silence, then 'spn' -> unknown
ResolveToken(mark) ==
    LET tok == IF mark = "" THEN silence_token ELSE mark
    IN IF tok = "spn" THEN unknown_token ELSE tok

\* train_audio.py: '' -> silence only
TrainResolveToken(mark) == IF mark = "" THEN silence_token ELSE mark

\* the loop of extract_textgrid from interval i on, with the running `time`
RECURSIVE ExtractFrom(_, _, _, _)
ExtractFrom(src, i, time, dur) ==
    IF i > Len(src) THEN [tokens |-> <<>>, durations |-> <<>>]
    ELSE LET ends == src[i].maxTime
             duration == (ends - time) \div dur
             rest == ExtractFrom(src, i + 1, ends, dur)
         IN [tokens |-> <<src[i].mark>> \o rest.tokens,
             durations |-> <<duration>> \o rest.durations]

extract_textgrid(src) ==
    LET raw == ExtractFrom(src, 1, 0, phoneme_duration)
    IN [tokens |-> [i \in 1..Len(src) |-> ResolveToken(raw.tokens[i])],
        durations |-> raw.durations]

train_extract_textgrid(src) ==
    LET raw == ExtractFrom(src, 1, 0, token_duration)
    IN [tokens |-> [i \in 1..Len(src) |-> TrainResolveToken(raw.tokens[i])],
        durations |-> raw.durations]

\* for i in range(d): phonemes.append(tok)  -- range(d) is empty for d <= 0
RECURSIVE Repeat(_, _)
Repeat(tok, d) == IF d <= 0 THEN <<>> ELSE <<tok>> \o Repeat(tok, d - 1)

RECURSIVE ExpandFrom(_, _, _)
ExpandFrom(tokens, durs, t) ==
    IF t > Len(tokens) THEN <<>>
    ELSE Repeat(tokens[t], durs[t]) \o ExpandFrom(tokens, durs, t + 1)

Expand(tokens, durs) == ExpandFrom(tokens, durs, 1)

(********************* AlignedDataset.__getitem__ **************************)
\* the offsets the length normalizer may draw for n expanded frames
AlignedOffsets(n) == Randint(n, max_length)

AlignedCropBad(phonemes, audio, offset, l) ==
    [tokens |-> Tokenizer(Slice(phonemes, offset, offset + l)),
     audio |-> Slice(audio, 0, l)]
AlignedCrop(phonemes, audio, offset, l) ==
    [tokens |-> Tokenizer(Slice(phonemes, offset, offset + l)),
     audio |-> Slice(audio, offset, offset + l)]

AlignedItem(src, T, offset) ==
    LET ex == extract_textgrid(src)
        phonemes == Expand(ex.tokens, ex.durations)
        l == IF Len(phonemes) > max_length THEN max_length ELSE Len(phonemes)
    IN [src |-> src, T |-> T, tokens |-> ex.tokens, durations |-> ex.durations,
        phonemes |-> phonemes, offset |-> offset,
        ret |-> AlignedCrop(phonemes, LoadAudio(T), offset, l)]

\* number of frames the decoder and the expansion stage give for src
AlignedFrames(src) ==
    LET ex == extract_textgrid(src) IN Len(Expand(ex.tokens, ex.durations))

\* dataset[index], keeping the call's locals in cur
AlignedGetItem ==
    /\ pc = "access"
    /\ variant = "aligned"
    /\ \E offset \in AlignedOffsets(AlignedFrames(item.textgrid)) :
         cur' = AlignedItem(item.textgrid, item.frames, offset)
    /\ pc' = "returned"
    /\ UNCHANGED <<variant, item, batch, collated, indexVars, recordVars, flatVars, pairedVars>>

\* the examples an access of the paired-file source can return, for the
\* utterances of at most MaxBatchFrames frames the batch pipeline is fed
AlignedExamples ==
    UNION {UNION {{AlignedItem(src, T, offset).ret :
                      T \in 0..MaxAudio, offset \in AlignedOffsets(AlignedFrames(src))} :
                  src \in {g \in TextGrids(n) : AlignedFrames(g) <= MaxBatchFrames}} :
           n \in 0..MaxIntervals}

\* the loader's fetch: batch.append(dataset[index])
AlignedFetch ==
    /\ pc = "loading"
    /\ variant = "aligned"
    /\ Len(batch) < batch_size
    /\ \E e \in AlignedExamples : batch' = Append(batch, e)
    /\ UNCHANGED <<pc, variant, item, cur, collated, indexVars, recordVars, flatVars, pairedVars>>

(********************* TextGridDataset.__getitem__ *************************)
\* mask_len = k / MaskGrid with 0.7 <= mask_len <= 1
MaskLens == {k \in 0..MaskGrid : 10 * k >= 7 * MaskGrid}
\* mask_offset = j / MaskGrid with 0 <= mask_offset <= 1 - mask_len
MaskOffsets(k) == 0..(MaskGrid - k)

mask_start(n, j) == (j * n) \div MaskGrid
mask_end(n, j, k) == ((j + k) * n) \div MaskGrid

\* mask = zeros(n); mask[mask_start : mask_end] = 1; mask.bool()
SpanMaskBad(n, j, k) ==
    [i \in 1..n |-> ~ (mask_start(n, j) < i /\ i <= mask_end(n, j, k))]
SpanMask(n, j, k) ==
    [i \in 1..n |-> (mask_start(n, j) < i /\ i <= mask_end(n, j, k))]

\* torch.ones(n).bool()
FullMask(n) == [i \in 1..n |-> TRUE]

MakeMask(n, need, j, k) == IF need THEN SpanMask(n, j, k) ELSE FullMask(n)

TrainItem(src, T, need, j, k) ==
    LET ex == train_extract_textgrid(src)
        phonemes == Expand(ex.tokens, ex.durations)
        tok == Tokenizer(phonemes)
    IN [src |-> src, T |-> T, tokens |-> ex.tokens, durations |-> ex.durations,
        phonemes |-> phonemes, offset |-> 0,
        need |-> need, mask_offset |-> j, mask_len |-> k,
        ret |-> [tokens |-> tok,
                 audio |-> Slice(LoadAudio(T), 0, Len(tok)),
                 mask |-> MakeMask(Len(tok), need, j, k)]]

TrainFrames(src) ==
    LET ex == train_extract_textgrid(src) IN Len(Expand(ex.tokens, ex.durations))

\* the draws of one access: (need to mask, mask_offset, mask_len)
MaskDraws ==
    {d \in {TRUE} \X (0..MaskGrid) \X MaskLens : d[2] \in MaskOffsets(d[3])}
        \cup {<<FALSE, 0, MaskGrid>>}

TrainGetItem ==
    /\ pc = "access"
    /\ variant = "train"
    /\ \E d \in MaskDraws :
         cur' = TrainItem(item.textgrid, item.frames, d[1], d[2], d[3])
    /\ pc' = "returned"
    /\ UNCHANGED <<variant, item, batch, collated, indexVars, recordVars, flatVars, pairedVars>>

\* the examples an access of TextGridDataset can return for those utterances
TrainExamples ==
    UNION {UNION {{TrainItem(src, T, d[1], d[2], d[3]).ret :
                      T \in 0..MaxAudio, d \in MaskDraws} :
                  src \in {g \in TextGrids(n) : TrainFrames(g) <= MaxBatchFrames}} :
           n \in 0..MaxIntervals}

TrainFetch ==
    /\ pc = "loading"
    /\ variant = "train"
    /\ Len(batch) < batch_size
    /\ \E e \in TrainExamples : batch' = Append(batch, e)
    /\ UNCHANGED <<pc, variant, item, cur, collated, indexVars, recordVars, flatVars, pairedVars>>

(************************* collate_to_shortest *****************************)
TokenLens(b) == {Len(b[i].tokens) : i \in 1..Len(b)}

min_len_bad(b) == MaxOf(TokenLens(b))
min_len(b) == MinOf(TokenLens(b))

\* one offset per example: drawn when the example is longer than min_len
CollateOffsets(b) ==
    LET m == min_len(b)
        top == MaxOf(TokenLens(b))
    IN {f \in [1..Len(b) -> 0..top] :
           \A i \in 1..Len(b) : f[i] \in Randint(Len(b[i].tokens), m)}

HasMask(e) == "mask" \in DOMAIN e

CropExample(e, offset, m) ==
    IF Len(e.tokens) > m
    THEN IF HasMask(e)
         THEN [tokens |-> Slice(e.tokens, offset, offset + m),
               audio |-> Slice(e.audio, offset, offset + m),
               mask |-> Slice(e.mask, offset, offset + m)]
         ELSE [tokens |-> Slice(e.tokens, offset, offset + m),
               audio |-> Slice(e.audio, offset, offset + m)]
    ELSE e

\* torch.stack raises unless every tensor of the list has the same shape
Stackable(padded) ==
    \A i, j \in 1..Len(padded) :
        /\ Len(padded[i].tokens) = Len(padded[j].tokens)
        /\ Len(padded[i].audio) = Len(padded[j].audio)
        /\ HasMask(padded[i]) => Len(padded[i].mask) = Len(padded[j].mask)

collate_to_shortest(b, offsets) ==
    LET m == min_len(b)
        padded == [i \in 1..Len(b) |-> CropExample(b[i], offsets[i], m)]
    IN [status |-> IF Stackable(padded) THEN "ok" ELSE "error",
        min_len |-> m, offsets |-> offsets, padded |-> padded]

Collate ==
    /\ pc = "loading"
    /\ variant \in {"aligned", "train"}
    /\ Len(batch) >= 1
    /\ \E offsets \in CollateOffsets(batch) :
         collated' = collate_to_shortest(batch, offsets)
    /\ pc' = "collated"
    /\ UNCHANGED <<variant, item, cur, batch, indexVars, recordVars, flatVars, pairedVars>>

(***************************** pipeline ************************************)
Init ==
    /\ pc = "loading"
    /\ variant \in {"aligned", "train"}
    /\ item = None
    /\ cur = None
    /\ batch = <<>>
    /\ collated = None
    /\ IdleIndex /\ IdleRecord /\ IdleFlat /\ IdlePaired

Next ==
    \/ AlignedFetch
    \/ TrainFetch
    \/ Collate

Spec == Init /\ [][Next]_vars

(*************************** single accesses *******************************)
\* the entries a dataset can hold: a tier and the stored tensor's frame count
DatasetItems(n) == [textgrid : TextGrids(n), frames : 0..MaxAudio]

InitAligned ==
    /\ pc = "access"
    /\ variant = "aligned"
    /\ \E n \in 0..MaxIntervals : item \in DatasetItems(n)
    /\ cur = None
    /\ batch = <<>>
    /\ collated = None
    /\ IdleIndex /\ IdleRecord /\ IdleFlat /\ IdlePaired

SpecAligned == InitAligned /\ [][AlignedGetItem]_vars

InitTrain ==
    /\ pc = "access"
    /\ variant = "train"
    /\ \E n \in 0..MaxIntervals : item \in DatasetItems(n)
    /\ cur = None
    /\ batch = <<>>
    /\ collated = None
    /\ IdleIndex /\ IdleRecord /\ IdleFlat /\ IdlePaired

SpecTrain == InitTrain /\ [][TrainGetItem]_vars

(******************* datasets_index.py: the index builder ******************)
\* imap_unordered(get_duration, files, chunksize): consecutive chunks of paths
RECURSIVE Chunks(_)
Chunks(fs) ==
    IF Len(fs) = 0 THEN <<>>
    ELSE IF Len(fs) <= ChunkSize THEN <<fs>>
    ELSE <<SubSeq(fs, 1, ChunkSize)>> \o Chunks(SubSeq(fs, ChunkSize + 1, Len(fs)))

get_duration(path) == [path |-> path, duration |-> clips[path]]

\* key(a) < key(b) for key = (-duration, path)
KeyBeforeBad(a, b) == a.duration > b.duration
KeyBefore(a, b) ==
    \/ a.duration > b.duration
    \/ a.duration = b.duration /\ a.path < b.path

\* sorted() is stable: x goes in front of the first entry whose key is greater
RECURSIVE Insert(_, _)
Insert(s, x) ==
    IF Len(s) = 0 THEN <<x>>
    ELSE IF KeyBefore(x, Head(s)) THEN <<x>> \o s
    ELSE <<Head(s)>> \o Insert(Tail(s), x)

RECURSIVE SortedFrom(_, _, _)
SortedFrom(l, i, acc) ==
    IF i > Len(l) THEN acc ELSE SortedFrom(l, i + 1, Insert(acc, l[i]))

sorted(l) == SortedFrom(l, 1, <<>>)

\* the loop over imap_unordered ends when it has yielded len(files) results
IterationDone == Len(durations) = Len(files)

WorkerTake(w) ==
    /\ pc = "calculating"
    /\ running[w] = <<>>
    /\ Len(tasks) > 0
    /\ running' = [running EXCEPT ![w] = Head(tasks)]
    /\ tasks' = Tail(tasks)
    /\ UNCHANGED <<pc, files, clips, results, durations, manifest,
                   pipeVars, recordVars, flatVars, pairedVars>>

WorkerFinish(w) ==
    /\ pc = "calculating"
    /\ running[w] # <<>>
    /\ results' = results \o [i \in 1..Len(running[w]) |-> get_duration(running[w][i])]
    /\ running' = [running EXCEPT ![w] = <<>>]
    /\ UNCHANGED <<pc, files, clips, tasks, durations, manifest,
                   pipeVars, recordVars, flatVars, pairedVars>>

\* one turn of main's for loop: durations.append((path, duration))
CollectResult ==
    /\ pc = "calculating"
    /\ Len(results) > 0
    /\ durations' = Append(durations, Head(results))
    /\ results' = Tail(results)
    /\ UNCHANGED <<pc, files, clips, tasks, running, manifest,
                   pipeVars, recordVars, flatVars, pairedVars>>

WriteFileList ==
    /\ pc = "calculating"
    /\ IterationDone
    /\ manifest' = sorted(durations)
    /\ pc' = "written"
    /\ UNCHANGED <<files, clips, tasks, running, results, durations,
                   pipeVars, recordVars, flatVars, pairedVars>>

Paths == 1..NumFiles

InitIndex ==
    /\ pc = "calculating"
    /\ files \in {f \in [1..NumFiles -> Paths] :
                     \A i, j \in 1..NumFiles : i # j => f[i] # f[j]}
    /\ clips \in [Paths -> 1..MaxDuration]
    /\ tasks = Chunks(files)
    /\ running = [w \in 1..NumWorkers |-> <<>>]
    /\ results = <<>>
    /\ durations = <<>>
    /\ manifest = None
    /\ IdlePipe /\ IdleRecord /\ IdleFlat /\ IdlePaired

NextIndex ==
    \/ \E w \in 1..NumWorkers : WorkerTake(w)
    \/ \E w \in 1..NumWorkers : WorkerFinish(w)
    \/ CollectResult
    \/ WriteFileList

SpecIndex == InitIndex /\ [][NextIndex]_vars

(************* get_phonemes_dataset: the record transformer ****************)
\* Python's round(num / den) for den > 0: halves go to the even integer
Round(num, den) ==
    LET q == num \div den
        r == num - q * den
    IN IF 2 * r < den THEN q
       ELSE IF 2 * r > den THEN q + 1
       ELSE IF q % 2 = 0 THEN q ELSE q + 1

\* if not last_silence: append a silence token of duration 0
WordBoundaryBad(last_silence) ==
    IF last_silence
    THEN [phonemes |-> <<silence_token>>, durations |-> <<0>>]
    ELSE [phonemes |-> <<>>, durations |-> <<>>]
WordBoundary(last_silence) ==
    IF ~ last_silence
    THEN [phonemes |-> <<silence_token>>, durations |-> <<0>>]
    ELSE [phonemes |-> <<>>, durations |-> <<>>]

\* for phone in word['p']: a phone whose label is None is skipped
RECURSIVE PhonesFrom(_, _)
PhonesFrom(p, i) ==
    IF i > Len(p) THEN [phonemes |-> <<>>, durations |-> <<>>]
    ELSE LET rest == PhonesFrom(p, i + 1)
         IN IF p[i].p # None
            THEN [phonemes |-> <<p[i].p>> \o rest.phonemes,
                  durations |-> <<Round(p[i].t[2] - p[i].t[1], phoneme_duration)>>
                                    \o rest.durations]
            ELSE rest

\* for word in data['w'], from word i on, with the running last_silence
RECURSIVE WordsFrom(_, _, _)
WordsFrom(w, i, last_silence) ==
    IF i > Len(w) THEN [phonemes |-> <<>>, durations |-> <<>>]
    ELSE LET start == w[i].t[1]
             end == w[i].t[2]
         IN IF w[i].w = None
            THEN LET rest == WordsFrom(w, i + 1, TRUE)
                 IN [phonemes |-> <<silence_token>> \o rest.phonemes,
                     durations |-> <<Round(end - start, phoneme_duration)>>
                                       \o rest.durations]
            ELSE LET mark == WordBoundary(last_silence)
                     phones == PhonesFrom(w[i].p, 1)
                     rest == WordsFrom(w, i + 1, FALSE)
                 IN [phonemes |-> mark.phonemes \o phones.phonemes \o rest.phonemes,
                     durations |-> mark.durations \o phones.durations \o rest.durations]

transformer(d) ==
    LET out == WordsFrom(d.w, 1, TRUE)
    IN [phonemes |-> Tokenizer(out.phonemes), durations |-> out.durations]

Transform ==
    /\ pc = "record"
    /\ transformed' = transformer(data)
    /\ pc' = "transformed"
    /\ UNCHANGED <<data, pipeVars, indexVars, flatVars, pairedVars>>

\* [start, end] pairs of a word or a phone
Spans == {<<1, 1 + d>> : d \in 0..MaxSpan}
Phones == [p : {None, "a"}, t : Spans]
PhoneLists(k) == [1..k -> Phones]
\* the words that take `size` entries of a record: a silence gap, or a word
\* with size - 1 phones
WordsOfSize(size) ==
    (IF size = 1 THEN [w : {None}, t : Spans, p : {<<>>}] ELSE {})
        \cup [w : {"word"}, t : {<<1, 1 + MaxSpan>>}, p : PhoneLists(size - 1)]

\* the word lists that take exactly n entries (words plus phones)
RECURSIVE WordLists(_)
WordLists(n) ==
    IF n = 0 THEN {<<>>}
    ELSE UNION {{<<w>> \o rest : w \in WordsOfSize(k), rest \in WordLists(n - k)} :
                   k \in 1..n}

InitRecord ==
    /\ pc = "record"
    /\ \E n \in 0..MaxRecordSize : \E w \in WordLists(n) : data = [w |-> w]
    /\ transformed = None
    /\ IdlePipe /\ IdleIndex /\ IdleFlat /\ IdlePaired

SpecRecord == InitRecord /\ [][Transform]_vars

(***************** AudioFileListDataset: the flat-file source **************)
segment_size == max_length

\* random.randint(0, audio.shape[0] - segment_size) when the audio is long enough
FlatStartsBad(T) == IF T >= segment_size THEN 0..(T - segment_size + 1) ELSE {0}
FlatStarts(T) == IF T >= segment_size THEN 0..(T - segment_size) ELSE {0}

\* torch.nn.functional.pad(audio, (0, 0, 0, k)): k zero frames after the last
PadEnd(audio, k) == audio \o [i \in 1..k |-> PadFrame]

FlatAudio(T, audio_start) ==
    LET audio == LoadAudio(T)
    IN IF T >= segment_size
       THEN Slice(audio, audio_start, audio_start + segment_size)
       ELSE PadEnd(audio, segment_size - T)

\* get_aligned_dataset_dumb_loader.transformer: zeros(data.shape[0]).long(), data
dumb_transformer(audio) ==
    [tokens |-> [i \in 1..Len(audio) |-> 0], audio |-> audio]

FlatGetItem ==
    /\ pc = "rows"
    /\ \E index \in 1..Len(rows) :
         \E audio_start \in FlatStarts(rows[index].frames) :
            sample' = [index |-> index, audio_start |-> audio_start,
                    example |-> dumb_transformer(
                                    FlatAudio(rows[index].frames, audio_start))]
    /\ pc' = "returned"
    /\ UNCHANGED <<rows, pipeVars, indexVars, recordVars, pairedVars>>

\* the manifest's rows in the order random.shuffle left them, each with the
\* frame count of the tensor stored beside its file
InitFlat ==
    /\ pc = "rows"
    /\ rows \in {r \in [1..NumFiles -> [filename : Paths, frames : 0..MaxAudio]] :
                    \A i, j \in 1..NumFiles : i # j => r[i].filename # r[j].filename}
    /\ sample = None
    /\ IdlePipe /\ IdleIndex /\ IdleRecord /\ IdlePaired

SpecFlat == InitFlat /\ [][FlatGetItem]_vars

(*********** get_aligned_dataset_loader: the paired-file source ***********)
\* key(a) < key(b) for key = (-x[0].maxTime, x[1])
PairKeyBeforeBad(a, b) == a.tg.maxTime > b.tg.maxTime
PairKeyBefore(a, b) ==
    \/ a.tg.maxTime > b.tg.maxTime
    \/ a.tg.maxTime = b.tg.maxTime /\ a.file < b.file

\* sorted() is stable: x goes in front of the first pair whose key is greater
RECURSIVE InsertPair(_, _)
InsertPair(s, x) ==
    IF Len(s) = 0 THEN <<x>>
    ELSE IF PairKeyBefore(x, Head(s)) THEN <<x>> \o s
    ELSE <<Head(s)>> \o InsertPair(Tail(s), x)

RECURSIVE SortedPairsFrom(_, _, _)
SortedPairsFrom(l, i, acc) ==
    IF i > Len(l) THEN acc ELSE SortedPairsFrom(l, i + 1, InsertPair(acc, l[i]))

sorted_pairs(l) == SortedPairsFrom(l, 1, <<>>)

\* tg, files = zip(*sorted(zip(tg, files), key=...)); AlignedDataset(tg, files).
\* With nothing loaded zip(*[]) yields nothing to unpack and the line raises.
Construct ==
    /\ pc = "loaded"
    /\ IF Len(pairs) = 0
       THEN /\ pc' = "error"
            /\ dataset' = None
       ELSE LET s == sorted_pairs(pairs)
            IN /\ dataset' = [textgrid |-> [i \in 1..Len(s) |-> s[i].tg],
                              files |-> [i \in 1..Len(s) |-> s[i].file]]
               /\ pc' = "constructed"
    /\ UNCHANGED <<pairs, pipeVars, indexVars, recordVars, flatVars>>

\* frames of the tensor stored at path: the audio prepared from the utterance
\* the path was loaded with
StoredFrames(path) ==
    LET p == CHOOSE q \in {pairs[i] : i \in 1..Len(pairs)} : q.file = path
    IN p.tg.maxTime \div phoneme_duration

\* __len__
DatasetLen == Len(dataset.files)

\* dataset[index] on the constructed source
PairedItems(index) ==
    LET src == dataset.textgrid[index].tier
    IN {[index |-> index,
         item |-> AlignedItem(src, StoredFrames(dataset.files[index]), offset)] :
           offset \in AlignedOffsets(AlignedFrames(src))}

PairedAccess ==
    /\ pc = "constructed"
    /\ \E index \in 1..DatasetLen : \E it \in PairedItems(index) : cur' = it
    /\ UNCHANGED <<pc, variant, item, batch, collated,
                   indexVars, recordVars, flatVars, pairedVars>>

\* the ways to fetch dataset[start], ..., dataset[start + k - 1] in turn
RECURSIVE FetchItems(_, _)
FetchItems(start, k) ==
    IF k = 0 THEN {<<>>}
    ELSE {<<it>> \o rest : it \in PairedItems(start),
                           rest \in FetchItems(start + 1, k - 1)}

\* DataLoader(shuffle=False, batch_size): the items of consecutive indices
\* from start on, then collate_to_shortest
PairedBatch ==
    /\ pc = "constructed"
    /\ \E start \in 1..DatasetLen :
         \E its \in FetchItems(start, Min2(batch_size, DatasetLen - start + 1)) :
            /\ cur' = its[Len(its)]
            /\ batch' = [j \in 1..Len(its) |-> its[j].item.ret]
            /\ \E offsets \in CollateOffsets(batch') :
                 collated' = collate_to_shortest(batch', offsets)
    /\ UNCHANGED <<pc, variant, item,
                   indexVars, recordVars, flatVars, pairedVars>>

\* a loaded alignment: the utterance's duration and its phone tier, which
\* ends where the utterance ends
LoadedTextGrids ==
    {[maxTime |-> d, tier |-> <<[maxTime |-> d, mark |-> "a"]>>] :
        d \in 1..MaxDuration}

InitPaired ==
    /\ pc = "loaded"
    /\ variant = "aligned"
    /\ \E n \in 0..NumFiles :
         pairs \in {l \in [1..n -> [tg : LoadedTextGrids, file : Paths]] :
                       \A i, j \in 1..n : i # j => l[i].file # l[j].file}
    /\ dataset = None
    /\ item = None /\ cur = None /\ batch = <<>> /\ collated = None
    /\ IdleIndex /\ IdleRecord /\ IdleFlat

NextPaired ==
    \/ Construct
    \/ PairedAccess
    \/ PairedBatch

SpecPaired == InitPaired /\ [][NextPaired]_vars

(***************************************************************************)
(*                     Properties of the batch pipeline                    *)
(***************************************************************************)
Range(s) == {s[p] : p \in 1..Len(s)}

\* o is the part of s that lies in the window [off, off + L)
IsWindow(o, s, off, L) ==
    /\ Len(o) = Max2(0, Min2(off + L, Len(s)) - Min2(off, Len(s)))
    /\ \A p \in 1..Len(o) : o[p] = s[off + p]

\* the least token length of the batch, found without min_len
ShortestLen(b) ==
    CHOOSE L \in 0..(MaxTime + 1) :
        /\ \A i \in 1..Len(b) : Len(b[i].tokens) >= L
        /\ \E i \in 1..Len(b) : Len(b[i].tokens) = L

\* C1: for a non-empty batch with L the least token length, collate_to_shortest
\* gives every example token length exactly L, passes an example of length L
\* through unchanged, cuts every longer example to the contiguous window
\* [offset, offset + L) of its input with 0 <= offset <= len(tokens) - L, and
\* puts no value into the output that was not in the input (it never pads).
C1_CollateNeverPads ==
    pc = "collated" =>
        LET L == ShortestLen(batch) IN
        /\ Len(collated.padded) = Len(batch)
        /\ collated.min_len = L
        /\ \A i \in 1..Len(batch) :
             LET e == batch[i]
                 o == collated.padded[i]
                 off == collated.offsets[i]
             IN /\ Len(o.tokens) = L
                /\ Len(e.tokens) = L => o = e
                /\ Len(e.tokens) > L =>
                     /\ 0 <= off /\ off <= Len(e.tokens) - L
                     /\ o.tokens = SubSeq(e.tokens, off + 1, off + L)
                     /\ IsWindow(o.audio, e.audio, off, L)
                     /\ HasMask(e) => HasMask(o) /\ IsWindow(o.mask, e.mask, off, L)
                /\ Range(o.tokens) \subseteq Range(e.tokens)
                /\ Range(o.audio) \subseteq Range(e.audio)
                /\ PadFrame \notin Range(o.audio)
                /\ Len(o.audio) <= Len(e.audio)

\* C1's case: a stacked batch in which a longer example was cut at an offset > 0
C1_Witness ==
    /\ pc = "collated"
    /\ collated.status = "ok"
    /\ collated.min_len >= 1
    /\ \E i \in 1..Len(batch) :
         /\ collated.offsets[i] >= 1
         /\ Len(batch[i].tokens) > collated.min_len
         /\ collated.padded[i].audio # <<>>

\* C2: in every batch the pipeline returns, len(tokens) = len(audio) = len(mask)
\* for every example, and tokens, audio and mask of one example are cut at the
\* same offset, so position p of each comes from the same source frame.
C2_Synchrony ==
    (pc = "collated" /\ collated.status = "ok") =>
        \A i \in 1..Len(batch) :
            LET e == batch[i]
                o == collated.padded[i]
                off == IF Len(e.tokens) > collated.min_len
                       THEN collated.offsets[i] ELSE 0
            IN /\ Len(o.tokens) = Len(o.audio)
               /\ HasMask(o) => Len(o.mask) = Len(o.tokens)
               /\ Len(e.audio) >= off + Len(o.tokens)
               /\ \A p \in 1..Len(o.tokens) :
                    /\ o.tokens[p] = e.tokens[off + p]
                    /\ o.audio[p] = e.audio[off + p]
                    /\ HasMask(o) => o.mask[p] = e.mask[off + p]

\* C6: an example whose audio has fewer frames than its token sequence makes
\* the collation fail: no batch is returned that holds an example with audio
\* shorter than its tokens, whatever the batch (one example, or all equally
\* short), and no audio is padded.
C6_ShortAudioFails ==
    pc = "collated" =>
        /\ (\E i \in 1..Len(batch) : Len(batch[i].audio) < Len(batch[i].tokens))
               => collated.status = "error"
        /\ collated.status = "ok" =>
               \A i \in 1..Len(batch) :
                   /\ Len(collated.padded[i].audio) >= Len(collated.padded[i].tokens)
                   /\ PadFrame \notin Range(collated.padded[i].audio)

(***************************************************************************)
(*                      Properties of a single access                      *)
(***************************************************************************)
\* C3: AlignedDataset.__getitem__ on an example whose audio has at least as
\* many frames as its expanded token sequence: if len(tokens) > max_length the
\* offset is in [0, len(tokens) - max_length] and tokens and audio are both the
\* window [offset, offset + max_length), max_length frames each; otherwise the
\* offset is 0, the tokens keep their length and the audio is truncated to
\* len(tokens), never extended or padded.
C3_LengthNormalizer ==
    (pc = "returned" /\ variant = "aligned"
        /\ item.frames >= Len(cur.phonemes)) =>
        LET n == Len(cur.phonemes)
            ret == cur.ret
        IN IF n > max_length
           THEN /\ 0 <= cur.offset /\ cur.offset <= n - max_length
                /\ Len(ret.tokens) = max_length
                /\ Len(ret.audio) = max_length
                /\ \A p \in 1..max_length :
                     /\ ret.tokens[p] = TokenId(cur.phonemes[cur.offset + p])
                     /\ ret.audio[p] = cur.offset + p - 1
           ELSE /\ cur.offset = 0
                /\ Len(ret.tokens) = n
                /\ \A p \in 1..n : ret.tokens[p] = TokenId(cur.phonemes[p])
                /\ Len(ret.audio) = n
                /\ \A p \in 1..n : ret.audio[p] = p - 1

\* C3's case: a crop at the last admissible offset, with audio to spare
C3_Witness ==
    /\ pc = "returned"
    /\ variant = "aligned"
    /\ item.frames > Len(cur.phonemes)
    /\ Len(cur.phonemes) > max_length
    /\ cur.offset = Len(cur.phonemes) - max_length
    /\ Len(cur.ret.audio) = max_length

\* the draws of the access, as fractions of MaskGrid
MaskLo == (cur.mask_offset * Len(cur.ret.tokens)) \div MaskGrid
MaskHi == ((cur.mask_offset + cur.mask_len) * Len(cur.ret.tokens)) \div MaskGrid

Monotone(src) == \A i \in 2..Len(src) : src[i - 1].maxTime <= src[i].maxTime

FrameTicks == IF variant = "aligned" THEN phoneme_duration ELSE token_duration

FrameCount(src, i) ==
    (src[i].maxTime - (IF i = 1 THEN 0 ELSE src[i - 1].maxTime)) \div FrameTicks

RECURSIVE FrameSum(_, _)
FrameSum(src, i) == IF i = 0 THEN 0 ELSE FrameSum(src, i - 1) + FrameCount(src, i)

StatedSymbol(mark) ==
    IF mark = "" THEN silence_token
    ELSE IF mark = "spn" THEN unknown_token ELSE mark

\* C5: for a tier with non-decreasing end times the dense token sequence is the
\* concatenation, in interval order, of each interval's symbol repeated
\* floor((end_i - end_{i-1}) / phoneme_duration) times (end_0 = 0), where '' is
\* the silence symbol, 'spn' the unknown symbol and any other label itself; its
\* length is the sum of the frame counts, and a count of 0 adds no token.
C5_DenseSequence ==
    (pc = "returned" /\ Monotone(item.textgrid)) =>
        LET src == item.textgrid IN
        /\ Len(cur.phonemes) = FrameSum(src, Len(src))
        /\ \A i \in 1..Len(src) :
             \A p \in (FrameSum(src, i - 1) + 1)..FrameSum(src, i) :
                 cur.phonemes[p] = StatedSymbol(src[i].mark)

\* C7: an access to an alignment whose end times decrease somewhere fails:
\* it returns no token sequence for the item.
C7_NonMonotonicFails ==
    pc = "returned" => Monotone(item.textgrid)


(***************************************************************************)
(*                     Properties of the index builder                     *)
(***************************************************************************)
\* the place the ordering gives a file: the number of files whose duration
\* is greater, or equal with a smaller path
Rank(f) ==
    Cardinality({g \in Range(files) :
                    \/ clips[g] > clips[f]
                    \/ clips[g] = clips[f] /\ g < f})

Collected == {durations[i].path : i \in 1..Len(durations)}

\* C8: whatever order the pool's tasks complete in, no manifest exists while
\* durations are still being collected; once written, every enumerated file's
\* duration has been collected and nothing is pending in the pool, the
\* manifest holds exactly one line per enumerated file, and the lines run by
\* descending duration with ties by ascending path, so line k is the file of
\* rank k - 1 whatever the completion order was.
C8_ManifestOrdered ==
    /\ pc = "calculating" => manifest = None
    /\ pc = "written" =>
        /\ Collected = Range(files)
        /\ Len(durations) = Len(files)
        /\ Len(tasks) = 0 /\ Len(results) = 0
        /\ \A w \in 1..NumWorkers : running[w] = <<>>
        /\ Len(manifest) = Len(files)
        /\ \A f \in Range(files) :
              Cardinality({k \in 1..Len(manifest) : manifest[k].path = f}) = 1
        /\ \A k \in 1..Len(manifest) :
              /\ manifest[k].duration = clips[manifest[k].path]
              /\ Rank(manifest[k].path) = k - 1
        /\ \A j, k \in 1..Len(manifest) :
              j < k => \/ manifest[j].duration > manifest[k].duration
                       \/ /\ manifest[j].duration = manifest[k].duration
                          /\ manifest[j].path < manifest[k].path

\* a manifest written after two files of equal duration were collected with
\* the greater path first, and after results arrived out of enumeration order
C8_Witness ==
    /\ pc = "written"
    /\ \E i, j \in 1..Len(durations) :
          /\ i < j
          /\ durations[i].duration = durations[j].duration
          /\ durations[i].path > durations[j].path
    /\ durations[1].path # files[1]

(***************************************************************************)
(*                   Properties of the record transformer                  *)
(***************************************************************************)
\* word i of the record is a non-silence word that follows a non-silence word
AfterSpokenWord(i) ==
    /\ i > 1
    /\ data.w[i].w # None
    /\ data.w[i - 1].w # None

LabelledPhones(i) == SelectSeq(data.w[i].p, LAMBDA ph : ph.p # None)

\* what word i is stated to contribute: (symbol, duration) pairs
StatedWord(i) ==
    IF data.w[i].w = None
    THEN <<[symbol |-> silence_token,
            duration |-> Round(data.w[i].t[2] - data.w[i].t[1], phoneme_duration)]>>
    ELSE (IF AfterSpokenWord(i)
          THEN <<[symbol |-> silence_token, duration |-> 0]>>
          ELSE <<>>)
         \o [k \in 1..Len(LabelledPhones(i)) |->
                [symbol |-> LabelledPhones(i)[k].p,
                 duration |-> Round(LabelledPhones(i)[k].t[2] - LabelledPhones(i)[k].t[1],
                                    phoneme_duration)]]

RECURSIVE StatedFrom(_)
StatedFrom(i) ==
    IF i > Len(data.w) THEN <<>> ELSE StatedWord(i) \o StatedFrom(i + 1)

\* C9: for every record the transformer's output is, word by word, one
\* silence token with the gap's duration for a silence word, and for a
\* non-silence word a zero-duration silence token exactly when the preceding
\* word is also a non-silence word, followed by one token with its own
\* duration per phone whose label is not null; the token list and the
\* duration list have the same length.
C9_RecordTransformer ==
    pc = "transformed" =>
        LET stated == StatedFrom(1)
        IN /\ Len(transformed.phonemes) = Len(transformed.durations)
           /\ Len(transformed.phonemes) = Len(stated)
           /\ \A k \in 1..Len(stated) :
                 /\ transformed.phonemes[k] = TokenId(stated[k].symbol)
                 /\ transformed.durations[k] = stated[k].duration

\* a transformed record with a silence word whose gap is an odd number of
\* ticks (a half to round), then two adjacent non-silence words, the second
\* with a phone that has no label: one gap token and one boundary marker
C9_Witness ==
    /\ pc = "transformed"
    /\ \E i \in 1..Len(data.w) :
          /\ data.w[i].w = None
          /\ (data.w[i].t[2] - data.w[i].t[1]) % phoneme_duration # 0
    /\ \E i \in 1..Len(data.w) :
          /\ AfterSpokenWord(i)
          /\ \E k \in 1..Len(data.w[i].p) : data.w[i].p[k].p = None
    /\ Len(transformed.phonemes) = 2
    /\ transformed.durations[2] = 0

(***************************************************************************)
(*                    Properties of the flat-file source                   *)
(***************************************************************************)
\* C10: every access of the flat-file source returns exactly segment_size
\* audio frames and as many tokens, all zero; stored audio of T >=
\* segment_size frames is returned as the window [audio_start, audio_start +
\* segment_size) with 0 <= audio_start <= T - segment_size, and shorter audio
\* is returned whole at the front, followed by zero frames.
C10_FlatAccess ==
    pc = "returned" =>
        LET T == rows[sample.index].frames
            audio == sample.example.audio
            tokens == sample.example.tokens
        IN /\ Len(audio) = segment_size
           /\ Len(tokens) = segment_size
           /\ \A p \in 1..Len(tokens) : tokens[p] = 0
           /\ IF T >= segment_size
              THEN /\ 0 <= sample.audio_start
                   /\ sample.audio_start <= T - segment_size
                   /\ \A p \in 1..segment_size :
                         audio[p] = LoadAudio(T)[sample.audio_start + p]
              ELSE /\ \A p \in 1..T : audio[p] = LoadAudio(T)[p]
                   /\ \A p \in (T + 1)..segment_size : audio[p] = PadFrame

\* an access of a stored tensor that is short but not empty: one real frame
\* at the front, zero frames after it
C10_Witness ==
    /\ pc = "returned"
    /\ rows[sample.index].frames = segment_size - 1
    /\ sample.example.audio[1] = 0
    /\ sample.example.audio[segment_size] = PadFrame


(***************************************************************************)
(*                   Properties of the paired-file source                  *)
(***************************************************************************)
\* the (alignment, path) pair the constructed source holds at index k
PairAt(k) == [tg |-> dataset.textgrid[k], file |-> dataset.files[k]]

\* C11: before construction there is no dataset; once constructed, and after
\* any accesses and batches, the source has as many alignments and as many
\* paths as pairs were loaded, every loaded pair sits at exactly one index
\* with its alignment and its path together, and the indices run by
\* descending utterance duration with ties by ascending path.
C11_PairedOrder ==
    /\ pc \in {"loaded", "error"} => dataset = None
    /\ pc = "constructed" =>
        /\ Len(dataset.textgrid) = Len(pairs)
        /\ DatasetLen = Len(pairs)
        /\ \A i \in 1..Len(pairs) :
              Cardinality({k \in 1..DatasetLen : PairAt(k) = pairs[i]}) = 1
        /\ \A j, k \in 1..DatasetLen :
              j < k => \/ dataset.textgrid[j].maxTime > dataset.textgrid[k].maxTime
                       \/ /\ dataset.textgrid[j].maxTime = dataset.textgrid[k].maxTime
                          /\ dataset.files[j] < dataset.files[k]

\* a constructed source from which a full batch was fetched, loaded with two
\* utterances of equal duration of which the greater path came first and a
\* longer utterance after a shorter one
C11_Witness ==
    /\ pc = "constructed"
    /\ Len(batch) = batch_size
    /\ \E i, j \in 1..Len(pairs) :
          /\ i < j
          /\ pairs[i].tg.maxTime = pairs[j].tg.maxTime
          /\ pairs[i].file > pairs[j].file
    /\ \E i, j \in 1..Len(pairs) :
          /\ i < j
          /\ pairs[i].tg.maxTime < pairs[j].tg.maxTime
    /\ dataset.files[1] # pairs[1].file

====
